---- MODULE Spec2Model ----
(***************************************************************************)
(* Avatar pipeline of mic-drop-results: the cache path resolver            *)
(* (utils.get_avatar_dir), the link resolver (client.fetch_avatar_url),    *)
(* the downloader (client.download_avatar) and the effect processor        *)
(* (utils.artistic_effect).                                                *)
(*                                                                         *)
(* Text is a sequence of one-character strings, so that slicing (name[2:]),*)
(* concatenation and decimal formatting are computed, not assumed.         *)
(***************************************************************************)
EXTENDS Integers, Sequences, FiniteSets, TLC

VARIABLES
    cache,      \* the cache directory: path -> stored image
    writes,     \* provenance: every imwrite made so far
    pc,         \* where each worker stands
    call,       \* the operation each worker is in, or has just finished
    events,     \* requests and sleeps of that operation, in order
    resp,       \* body of the last lookup response each worker received
    outcome,    \* how that operation ended: returned value or raised error
    wrote,      \* the paths that operation has written
    puid,       \* the identifier a concurrent worker is given
    pr          \* the path resolver applied to drawn inputs

vars == <<cache, writes, pc, call, events, resp, outcome, wrote, puid, pr>>

(***************************************************************************)
(* Bounds                                                                  *)
(***************************************************************************)
\* an effect code that artistic_effect does not recognise (three decimal digits)
UnknownEffect == 100
\* rate-limit responses one call of download_avatar may receive
MaxRetries == 2
\* longest file name the cache directory accepts in the pipeline model
MaxNameLen == 9
\* longest identifier text drawn for the path resolver
MaxUidLen == 3
\* largest effect code drawn for the path resolver
MaxPathEffect == 11

(***************************************************************************)
(* Program constants                                                       *)
(***************************************************************************)
\* case 1 of artistic_effect: grayscale
GRAYSCALE == 1
AVATAR_DIR == "avatars"
PNG == <<".", "p", "n", "g">>
Digits == <<"0", "1", "2", "3", "4", "5", "6", "7", "8", "9">>

\* Python's None, as an identifier and as a path
NoneUid == <<"<None>">>
NonePath == [dir |-> "<None>", name |-> <<>>]
\* the result of get_avatar_dir when it raises ValueError
ValueErrorPath == [dir |-> "<ValueError>", name |-> <<>>]

(***************************************************************************)
(* utils.is_number: float(val) succeeds.  Over the characters the model    *)
(* draws (digits, "_", ".", "-", "+", and "x" for any character that no    *)
(* float literal holds) Python's float() accepts                           *)
(*   [sign] (digitpart ["." [digitpart]] | "." digitpart)                  *)
(* where digitpart is digits with single underscores between digits.       *)
(***************************************************************************)
IsDigit(c) == \E i \in 1..Len(Digits) : Digits[i] = c

DigitPart(s) ==
    /\ Len(s) >= 1
    /\ IsDigit(s[1])
    /\ IsDigit(s[Len(s)])
    /\ \A i \in 1..Len(s) : IsDigit(s[i]) \/ s[i] = "_"
    /\ \A i \in 1..(Len(s) - 1) : ~(s[i] = "_" /\ s[i + 1] = "_")

UnsignedFloat(s) ==
    \/ DigitPart(s)
    \/ \E i \in 1..Len(s) :
          /\ s[i] = "."
          /\ LET left == SubSeq(s, 1, i - 1)
                 right == SubSeq(s, i + 1, Len(s))
             IN \/ DigitPart(left) /\ (right = <<>> \/ DigitPart(right))
                \/ left = <<>> /\ DigitPart(right)

\* a bug that only looks for a digit somewhere in the text
is_number_any_digit(val) == \E i \in 1..Len(val) : IsDigit(val[i])

is_number(val) ==
    /\ Len(val) >= 1
    /\ IF val[1] \in {"-", "+"} THEN UnsignedFloat(Tail(val)) ELSE UnsignedFloat(val)

(***************************************************************************)
(* f"{effect}": Python's decimal text of an int                            *)
(***************************************************************************)
RECURSIVE IntStr(_)
IntStr(n) ==
    IF n < 0 THEN <<"-">> \o IntStr(-n)
    ELSE IF n < 10 THEN <<Digits[n + 1]>>
    ELSE IntStr(n \div 10) \o <<Digits[(n % 10) + 1]>>

(***************************************************************************)
(* pathlib: joinpath, Path.name, Path.stem                                 *)
(***************************************************************************)
abs_dir(dir, name) == [dir |-> dir, name |-> name]

PathName(p) == p.name

PathStem(p) ==
    LET n == p.name
        dots == {i \in 1..Len(n) : n[i] = "."}
    IN IF dots = {} THEN n
       ELSE LET j == CHOOSE i \in dots : \A k \in dots : k <= i
            IN IF 1 < j /\ j < Len(n) THEN SubSeq(n, 1, j - 1) ELSE n

\* name[2:]
DropTwo(s) == SubSeq(s, 3, Len(s))

\* a bug that keeps the og_dir file name as it is (no new effect prefix)
get_avatar_dir_keep(uid, og_dir, effect) ==
    IF uid # NoneUid
    THEN abs_dir(AVATAR_DIR, IntStr(effect) \o <<"_">> \o uid \o PNG)
    ELSE IF og_dir = NonePath \/ PathStem(og_dir) = PathName(og_dir)
         THEN ValueErrorPath
         ELSE abs_dir(AVATAR_DIR, PathName(og_dir))

\* a bug that builds every path under effect code 0
get_avatar_dir_zero(uid, og_dir, effect) ==
    IF uid # NoneUid
    THEN abs_dir(AVATAR_DIR, IntStr(0) \o <<"_">> \o uid \o PNG)
    ELSE IF og_dir = NonePath \/ PathStem(og_dir) = PathName(og_dir)
         THEN ValueErrorPath
         ELSE abs_dir(AVATAR_DIR, IntStr(0) \o <<"_">> \o DropTwo(PathName(og_dir)))

get_avatar_dir(uid, og_dir, effect) ==
    IF uid # NoneUid
    THEN abs_dir(AVATAR_DIR, IntStr(effect) \o <<"_">> \o uid \o PNG)
    ELSE IF og_dir = NonePath \/ PathStem(og_dir) = PathName(og_dir)
         THEN ValueErrorPath
         ELSE abs_dir(AVATAR_DIR, IntStr(effect) \o <<"_">> \o DropTwo(PathName(og_dir)))

\* the effect-0 cache path of an identifier, where download_avatar writes
get_avatar_path(uid) == get_avatar_dir(uid, NonePath, 0)

(***************************************************************************)
(* Images and the codec (cv2.imdecode, cv2.imread, cv2.cvtColor,           *)
(* cv2.imwrite)                                                            *)
(***************************************************************************)
ImageIds == {"i1"}
NoneImg == [id |-> "<None>", chan |-> "", gray |-> FALSE]
Malformed == [id |-> "<malformed bytes>", chan |-> "", gray |-> FALSE]
\* what the CDN may serve: PNG files with an alpha channel, or bytes that are no image
Bodies == {[id |-> i, chan |-> "BGRA", gray |-> FALSE] : i \in ImageIds} \cup {Malformed}

\* cv2.imdecode(arr, -1): the image as stored, None when the bytes do not decode
imdecode(body) == IF body = Malformed THEN NoneImg ELSE body

\* cv2.imread(path): three-channel BGR, None when there is no such file
imread(files, path) ==
    IF path \in DOMAIN files THEN [files[path] EXCEPT !.chan = "BGR"] ELSE NoneImg

\* the stored image of a path as it is, None when there is no such file
imread_raw(files, path) == IF path \in DOMAIN files THEN files[path] ELSE NoneImg

\* cv2.cvtColor(img, COLOR_BGR2GRAY) of an image that is not None
cvtColor(img) == [img EXCEPT !.chan = "GRAY", !.gray = TRUE]

(***************************************************************************)
(* utils.artistic_effect, on the files of the cache directory.             *)
(* Result: the files afterwards, the paths imwrite wrote, the image handed  *)
(* to imwrite, and either                                                  *)
(* the returned path or the raised error.                                  *)
(***************************************************************************)
FxResult(files, written, img, raised, ret) ==
    [files |-> files, written |-> written, img |-> img, raised |-> raised, ret |-> ret]

artistic_effect(files, og_dir, effect) ==
    IF effect # 0
    THEN LET img == imread(files, og_dir)
             fx_dir == get_avatar_dir(NoneUid, og_dir, effect)
         IN IF effect = GRAYSCALE /\ img = NoneImg
            THEN FxResult(files, {}, NoneImg, "cv2.error", NonePath)
            ELSE LET out == IF effect = GRAYSCALE THEN cvtColor(img) ELSE img
                 IN IF fx_dir = ValueErrorPath
                    THEN FxResult(files, {}, out, "ValueError", NonePath)
                    ELSE IF out = NoneImg
                    THEN FxResult(files, {}, out, "cv2.error", NonePath)
                    ELSE FxResult((fx_dir :> out) @@ files, {fx_dir}, out, "", fx_dir)
    ELSE FxResult(files, {}, NoneImg, "", og_dir)

(***************************************************************************)
(* The lookup endpoint: response bodies of GET /users/{uid}                *)
(***************************************************************************)
Procs == {1, 2}
Tokens == {"tok"}
Sizes == {128}
\* the avatar field: a hash, or JSON null (an account without avatar)
Hashes == {"a1", "null"}
UNAUTHORIZED == "401: unauthorized"
LIMIT == "limit"
UNKNOWN_USER == "unknown user"
\* the phrases a message may hold, in any combination
Markers == {UNAUTHORIZED, LIMIT, UNKNOWN_USER}
\* largest retry_after a rate-limit body carries
MaxRetryAfter == 2
RetryAfters == 1..MaxRetryAfter

Body(has_avatar, avatar, has_message, message, has_retry, retry_after) ==
    [has_avatar |-> has_avatar, avatar |-> avatar,
     has_message |-> has_message, message |-> message,
     has_retry |-> has_retry, retry_after |-> retry_after]

SuccessBodies == {Body(TRUE, h, FALSE, {}, FALSE, 0) : h \in Hashes}
ErrorBodies ==
    {Body(FALSE, "", TRUE, m, FALSE, 0) : m \in SUBSET Markers}
    \cup {Body(FALSE, "", TRUE, m, TRUE, d) : m \in SUBSET Markers, d \in RetryAfters}
\* a body with neither avatar nor message
BareBody == Body(FALSE, "", FALSE, {}, FALSE, 0)
\* requests.get raised ConnectionError or ReadTimeout: there is no body
TransportFailure == [has_avatar |-> FALSE, avatar |-> "<no response>",
                     has_message |-> FALSE, message |-> {},
                     has_retry |-> FALSE, retry_after |-> 0]
Responses == SuccessBodies \cup ErrorBodies \cup {BareBody, TransportFailure}
\* the responses drawn when two workers run side by side
CoreResponses ==
    {Body(TRUE, "a1", FALSE, {}, FALSE, 0), Body(FALSE, "", TRUE, {LIMIT}, TRUE, 1)}
NoResp == [has_avatar |-> FALSE, avatar |-> "<none yet>",
           has_message |-> FALSE, message |-> {},
           has_retry |-> FALSE, retry_after |-> 0]

\* str.format of the avatar field: None prints as "None"
HashText(h) == IF h = "null" THEN "None" ELSE h

AvatarUrl(uid, hash, size) ==
    <<"https://cdn.discordapp.com/avatars/", uid, "/", HashText(hash), ".png?size=", size>>
NoneUrl == <<"<None>">>

(***************************************************************************)
(* client.fetch_avatar_url, one frame: the branch taken on a response.     *)
(*   "ConnectionError"    requests.get raised                              *)
(*   "url"                the avatar field is there                        *)
(*   "KeyError"           a field the handler reads is missing             *)
(*   "InvalidTokenError", "UnknownUserError", "DiscordAPIError"  raised    *)
(*   "retry"              sleep retry_after, then call fetch_avatar_url    *)
(***************************************************************************)
\* a bug that looks for a phrase the API never sends ("unknown_user")
FetchBranchUnknownMissed(r) ==
    IF r = TransportFailure THEN "ConnectionError"
    ELSE IF r.has_avatar THEN "url"
    ELSE IF ~r.has_message THEN "KeyError"
    ELSE IF UNAUTHORIZED \in r.message THEN "InvalidTokenError"
    ELSE IF LIMIT \in r.message THEN (IF r.has_retry THEN "retry" ELSE "KeyError")
    ELSE "DiscordAPIError"

\* a bug that retries on a rate limit before it looks for an unauthorized token
FetchBranchLimitFirst(r) ==
    IF r = TransportFailure THEN "ConnectionError"
    ELSE IF r.has_avatar THEN "url"
    ELSE IF ~r.has_message THEN "KeyError"
    ELSE IF LIMIT \in r.message THEN (IF r.has_retry THEN "retry" ELSE "KeyError")
    ELSE IF UNAUTHORIZED \in r.message THEN "InvalidTokenError"
    ELSE IF UNKNOWN_USER \in r.message THEN "UnknownUserError"
    ELSE "DiscordAPIError"

FetchBranch(r) ==
    IF r = TransportFailure THEN "ConnectionError"
    ELSE IF r.has_avatar THEN "url"
    ELSE IF ~r.has_message THEN "KeyError"
    ELSE IF UNAUTHORIZED \in r.message THEN "InvalidTokenError"
    ELSE IF LIMIT \in r.message THEN (IF r.has_retry THEN "retry" ELSE "KeyError")
    ELSE IF UNKNOWN_USER \in r.message THEN "UnknownUserError"
    ELSE "DiscordAPIError"

\* the error a frame raises on branch b, with what it carries
FetchError(b, uid, api_token, r) ==
    IF b = "InvalidTokenError" THEN [kind |-> b, subject |-> <<api_token>>, body |-> r]
    ELSE IF b = "UnknownUserError" THEN [kind |-> b, subject |-> uid, body |-> r]
    ELSE IF b = "DiscordAPIError" THEN [kind |-> b, subject |-> <<api_token>>, body |-> r]
    ELSE [kind |-> b, subject |-> <<>>, body |-> NoResp]

\* time.sleep(response.json()['retry_after'])
\* a bug that sleeps a fixed second
SleepFixed(r) == 1

SleepDuration(r) == r.retry_after

\* what the outermost frame returns when the frame at this depth got a URL:
\* the inner call's value is dropped (line 63 has no return)
\* a variant that hands the retried value up to the caller
FetchReturnPropagated(depth, url) == url

FetchReturn(depth, url) == IF depth = 0 THEN url ELSE NoneUrl

(***************************************************************************)
(* client.download_avatar after the link is resolved: fetch the CDN body,  *)
(* decode it, write it to img_path.  imwrite of None raises cv2.error      *)
(* before any file is opened; URLError becomes ConnectionError.            *)
(***************************************************************************)
URLErrorBody == [id |-> "<URLError>", chan |-> "", gray |-> FALSE]
CdnOutcomes == Bodies \cup {URLErrorBody}

\* a bug that reports every failure of the block as ConnectionError
DownloadTailAllConnection(files, img_path, body) ==
    IF body = URLErrorBody \/ imdecode(body) = NoneImg
    THEN FxResult(files, {}, NoneImg, "ConnectionError", NonePath)
    ELSE FxResult((img_path :> imdecode(body)) @@ files, {img_path}, imdecode(body), "", NonePath)

DownloadTail(files, img_path, body) ==
    IF body = URLErrorBody
    THEN FxResult(files, {}, NoneImg, "ConnectionError", NonePath)
    ELSE LET img == imdecode(body)
         IN IF img = NoneImg
            THEN FxResult(files, {}, NoneImg, "cv2.error", NonePath)
            ELSE FxResult((img_path :> img) @@ files, {img_path}, img, "", NonePath)

(***************************************************************************)
(* State of a worker                                                       *)
(***************************************************************************)
NoError == [kind |-> "", subject |-> <<>>, body |-> NoResp]
Running == [kind |-> "running", error |-> NoError, ret |-> NonePath]
Returned(path) == [kind |-> "returned", error |-> NoError, ret |-> path]
Raised(err) == [kind |-> "raised", error |-> err, ret |-> NonePath]
NoOutcome == [kind |-> "none", error |-> NoError, ret |-> NonePath]

NoCall == [op |-> "none", uid |-> NoneUid, api_token |-> "", size |-> 0,
           img_path |-> NonePath, avatar_url |-> NoneUrl,
           body |-> NoneImg, og_dir |-> NonePath, effect |-> 0,
           before |-> NoneImg, img |-> NoneImg]

Ev(op, d, url) == [op |-> op, d |-> d, url |-> url]
PaceEv == Ev("pace", 0, NoneUrl)
LookupEv(uid) == Ev("lookup", 0, <<"https://discord.com/api/v9/users/", uid>>)

CountOp(evs, op) == Cardinality({i \in 1..Len(evs) : evs[i].op = op})

\* the identifiers the pipeline is asked for: two accounts (float() takes the
\* underscore form too) and a text that is no number
U5 == <<"5">>
U0_5 == <<"0", "_", "5">>
Ux == <<"x", "5">>
U5_ == <<"5", "_">>
NotNumbers == {Ux, U5_}
UIDs == {U5, U0_5} \cup NotNumbers
NumericUIDs == {u \in UIDs : is_number(u)}
Effects == {0, GRAYSCALE, UnknownEffect}

WriteRec(path, by, p, effect) == [path |-> path, by |-> by, proc |-> p, effect |-> effect]

(***************************************************************************)
(* download_avatar, lines 72-77: img_path, the pacing sleep, and the       *)
(* numeric check that opens fetch_avatar_url                               *)
(***************************************************************************)
DownloadStart(p, U) ==
    /\ pc[p] = "idle"
    /\ \E uid \in U, api_token \in Tokens, size \in Sizes :
          /\ call' = [call EXCEPT ![p] =
                        [NoCall EXCEPT !.op = "download_avatar", !.uid = uid,
                                       !.api_token = api_token, !.size = size,
                                       !.img_path = get_avatar_path(uid),
                                       !.before = imread_raw(cache, get_avatar_path(uid))]]
          /\ IF is_number(uid)
             THEN /\ pc' = [pc EXCEPT ![p] = "lookup"]
                  /\ outcome' = [outcome EXCEPT ![p] = Running]
             ELSE /\ pc' = pc
                  /\ outcome' = [outcome EXCEPT ![p] = Returned(NonePath)]
    /\ events' = [events EXCEPT ![p] = <<PaceEv>>]
    /\ resp' = [resp EXCEPT ![p] = NoResp]
    /\ wrote' = [wrote EXCEPT ![p] = {}]
    /\ UNCHANGED <<cache, writes, puid, pr>>

(***************************************************************************)
(* fetch_avatar_url, lines 41-69: one lookup request and the branch on its *)
(* response.  A frame entered by the retry of line 63 hands nothing back.  *)
(***************************************************************************)
Lookup(p, R) ==
    /\ pc[p] = "lookup"
    /\ \E r \in R :
         LET b == FetchBranch(r)
             depth == CountOp(events[p], "sleep")
             c == call[p]
         IN /\ b = "retry" => depth < MaxRetries
            /\ events' = [events EXCEPT ![p] = Append(@, LookupEv(c.uid))]
            /\ resp' = [resp EXCEPT ![p] = r]
            /\ IF b = "url"
               THEN LET v == FetchReturn(depth, AvatarUrl(c.uid, r.avatar, c.size))
                    IN /\ call' = [call EXCEPT ![p].avatar_url = v]
                       /\ IF v # NoneUrl
                          THEN /\ pc' = [pc EXCEPT ![p] = "cdn"]
                               /\ outcome' = outcome
                          ELSE /\ pc' = [pc EXCEPT ![p] = "idle"]
                               /\ outcome' = [outcome EXCEPT ![p] = Returned(NonePath)]
               ELSE IF b = "retry"
               THEN /\ pc' = [pc EXCEPT ![p] = "sleep"]
                    /\ UNCHANGED <<call, outcome>>
               ELSE /\ pc' = [pc EXCEPT ![p] = "idle"]
                    /\ outcome' = [outcome EXCEPT ![p] =
                                     Raised(FetchError(b, c.uid, c.api_token, r))]
                    /\ call' = call
    /\ UNCHANGED <<cache, writes, wrote, puid, pr>>

\* line 62: time.sleep(retry_after), then line 63 calls fetch_avatar_url again
Sleep(p) ==
    /\ pc[p] = "sleep"
    /\ events' = [events EXCEPT ![p] = Append(@, Ev("sleep", SleepDuration(resp[p]), NoneUrl))]
    /\ pc' = [pc EXCEPT ![p] = "lookup"]
    /\ UNCHANGED <<cache, writes, call, resp, outcome, wrote, puid, pr>>

\* lines 78-86: the CDN request, decode and imwrite
CdnFetch(p, B) ==
    /\ pc[p] = "cdn"
    /\ \E body \in B :
         LET c == call[p]
             res == DownloadTail(cache, c.img_path, body)
         IN /\ events' = [events EXCEPT ![p] = Append(@, Ev("cdn", 0, c.avatar_url))]
            /\ cache' = res.files
            /\ call' = [call EXCEPT ![p].img = res.img, ![p].body = body]
            /\ outcome' = [outcome EXCEPT ![p] =
                             IF res.raised = "" THEN Returned(NonePath)
                             ELSE Raised([NoError EXCEPT !.kind = res.raised])]
            /\ writes' = writes \cup
                             {WriteRec(q, "download_avatar", p, 0) : q \in res.written}
            /\ wrote' = [wrote EXCEPT ![p] = @ \cup res.written]
    /\ pc' = [pc EXCEPT ![p] = "idle"]
    /\ UNCHANGED <<resp, puid, pr>>

(***************************************************************************)
(* artistic_effect(og_dir, effect=effect) as one step of a worker          *)
(***************************************************************************)
ArtisticEffect(p, P, E) ==
    /\ pc[p] = "idle"
    /\ \E og_dir \in P, effect \in E :
         LET res == artistic_effect(cache, og_dir, effect)
         IN /\ \A q \in res.written : Len(q.name) <= MaxNameLen
            /\ call' = [call EXCEPT ![p] =
                          [NoCall EXCEPT !.op = "artistic_effect", !.og_dir = og_dir,
                                         !.effect = effect,
                                         !.before = imread_raw(cache, og_dir),
                                         !.img = res.img]]
            /\ cache' = res.files
            /\ outcome' = [outcome EXCEPT ![p] =
                             IF res.raised = "" THEN Returned(res.ret)
                             ELSE Raised([NoError EXCEPT !.kind = res.raised])]
            /\ writes' = writes \cup
                             {WriteRec(q, "artistic_effect", p, effect) : q \in res.written}
            /\ wrote' = [wrote EXCEPT ![p] = res.written]
    /\ events' = [events EXCEPT ![p] = <<>>]
    /\ resp' = [resp EXCEPT ![p] = NoResp]
    /\ UNCHANGED <<pc, puid, pr>>

(***************************************************************************)
(* The path resolver on drawn inputs: pathFor, then the og_dir branch      *)
(* that recovers the identifier from the path and rebuilds with e2         *)
(***************************************************************************)
PathChars == {"0", "5", "_", "."}
Texts == UNION {[1..k -> PathChars] : k \in 0..MaxUidLen}
ValidUids == {u \in Texts : is_number(u)}
PathEffects == 0..MaxPathEffect
PrIdle == [pc |-> "off", uid |-> NoneUid, e1 |-> 0, e2 |-> 0,
           path |-> NonePath, via |-> NonePath]

PathFor ==
    /\ pr.pc = "drawn"
    /\ pr' = [pr EXCEPT !.pc = "built", !.path = get_avatar_dir(pr.uid, NonePath, pr.e1)]
    /\ UNCHANGED <<cache, writes, pc, call, events, resp, outcome, wrote, puid>>

Rebuild ==
    /\ pr.pc = "built"
    /\ pr' = [pr EXCEPT !.pc = "rebuilt", !.via = get_avatar_dir(NoneUid, pr.path, pr.e2)]
    /\ UNCHANGED <<cache, writes, pc, call, events, resp, outcome, wrote, puid>>

(***************************************************************************)
(* Specifications                                                          *)
(***************************************************************************)
InitWorkers ==
    /\ cache = [x \in {} |-> NoneImg]
    /\ writes = {}
    /\ pc = [p \in Procs |-> "idle"]
    /\ call = [p \in Procs |-> NoCall]
    /\ events = [p \in Procs |-> <<>>]
    /\ resp = [p \in Procs |-> NoResp]
    /\ outcome = [p \in Procs |-> NoOutcome]
    /\ wrote = [p \in Procs |-> {}]

\* the sequential program: one worker, any identifier, any cache entry
Init ==
    /\ InitWorkers
    /\ puid = [p \in Procs |-> NoneUid]
    /\ pr = PrIdle

\* the paths artistic_effect is handed: an entry of the cache, or the
\* effect-0 path of an account whose avatar was never stored
KnownPaths == DOMAIN cache \cup {get_avatar_path(u) : u \in NumericUIDs}

Next ==
    \/ DownloadStart(1, UIDs)
    \/ Lookup(1, Responses)
    \/ Sleep(1)
    \/ CdnFetch(1, CdnOutcomes)
    \/ ArtisticEffect(1, KnownPaths, Effects)

Spec == Init /\ [][Next]_vars

\* the path resolver alone
InitPath ==
    /\ InitWorkers
    /\ puid = [p \in Procs |-> NoneUid]
    /\ pr \in {[pc |-> "drawn", uid |-> u, e1 |-> a, e2 |-> b,
                path |-> NonePath, via |-> NonePath] :
                 u \in ValidUids, a \in PathEffects, b \in PathEffects}

NextPath == PathFor \/ Rebuild

SpecPath == InitPath /\ [][NextPath]_vars

\* two workers side by side, each on its own identifier and its own entries
InitConc ==
    /\ InitWorkers
    /\ puid \in {f \in [Procs -> NumericUIDs] : \A p, q \in Procs : p # q => f[p] # f[q]}
    /\ pr = PrIdle

OwnPaths(p) == {w.path : w \in {x \in writes : x.proc = p}}

NextConc ==
    \E p \in Procs :
        \/ DownloadStart(p, {puid[p]})
        \/ Lookup(p, CoreResponses)
        \/ Sleep(p)
        \/ CdnFetch(p, CdnOutcomes)
        \/ ArtisticEffect(p, OwnPaths(p), Effects)

SpecConc == InitConc /\ [][NextConc]_vars

(***************************************************************************)
(* Properties                                                              *)
(***************************************************************************)
LastEv(p) == events[p][Len(events[p])]
JustLooked(p) == Len(events[p]) >= 1 /\ LastEv(p).op = "lookup"
\* a body without avatar whose message names the rate limit
SaysLimit(r) == ~r.has_avatar /\ r.has_message /\ LIMIT \in r.message
SaysUnauthorized(r) == ~r.has_avatar /\ r.has_message /\ UNAUTHORIZED \in r.message
SaysUnknownUser(r) == ~r.has_avatar /\ r.has_message /\ UNKNOWN_USER \in r.message

\* C1 as stated: a rate-limit response is followed by a sleep of its
\* retry_after and then one retry, and whatever the API answers one call
\* issues at most two lookup requests.
C1_AtMostTwoLookups ==
    \A p \in Procs :
        /\ CountOp(events[p], "lookup") <= 2
        /\ \A i \in 1..Len(events[p]) :
              events[p][i].op = "sleep" => i > 1 /\ events[p][i - 1].op = "lookup"

\* C1 amended: a response without avatar whose message names the rate limit,
\* not the unauthorized token, and that carries retry_after, makes the call
\* sleep exactly retry_after and then send the same lookup once more; every
\* lookup after the first comes right after such a sleep, so a call sends one
\* lookup more than it received rate-limit responses (no bound of two).
C1_SleepThenOneRetry ==
    \A p \in Procs :
        LET ev == events[p]
        IN /\ \A i \in 1..Len(ev) :
                 /\ ev[i].op = "sleep" => i > 1 /\ ev[i - 1].op = "lookup"
                 /\ ev[i].op = "lookup" =>
                       /\ i > 1 /\ ev[i - 1].op \in {"pace", "sleep"}
                       /\ ev[i].url = <<"https://discord.com/api/v9/users/", call[p].uid>>
           /\ CountOp(ev, "lookup") <= CountOp(ev, "sleep") + 1
           /\ (JustLooked(p) /\ SaysLimit(resp[p]) /\ ~SaysUnauthorized(resp[p])
                  /\ resp[p].has_retry) => pc[p] = "sleep"
           /\ pc[p] = "sleep" => JustLooked(p) /\ SaysLimit(resp[p])
           /\ (Len(ev) >= 1 /\ LastEv(p).op = "sleep") =>
                 /\ pc[p] = "lookup"
                 /\ SaysLimit(resp[p])
                 /\ LastEv(p).d = resp[p].retry_after

\* C1 witness: a call that was rate limited twice, slept 2 and then 1, and
\* sent its third lookup
C1_Witness ==
    \E p \in Procs :
        /\ Len(events[p]) = 6
        /\ events[p][3].op = "sleep" /\ events[p][3].d = 2
        /\ events[p][5].op = "sleep" /\ events[p][5].d = 1
        /\ events[p][6].op = "lookup"

\* C2 as stated: the path of (u, e1), taken apart by the og_dir branch and
\* rebuilt with e2, is the path of (u, e2), for every valid identifier and
\* all effect codes, those of two decimal digits included.
C2_RoundTrip ==
    pr.pc = "rebuilt" => pr.via = get_avatar_dir(pr.uid, NonePath, pr.e2)

StartsWith(s, t) == Len(s) >= Len(t) /\ SubSeq(s, 1, Len(t)) = t
IsFx(p) == call[p].op = "artistic_effect"
\* artistic_effect was handed an entry that was in the cache
OnEntry(p) == IsFx(p) /\ call[p].before # NoneImg

\* C3 as stated: with effect code 1 and any existing cache entry as input
\* (an effect-0 entry or one already stored under effect code 1) the path
\* written and returned differs from the input path and the input file is
\* left as it was.
C3_NeverOverwritesSource ==
    \A p \in Procs :
        (OnEntry(p) /\ call[p].effect = GRAYSCALE) =>
            /\ outcome[p].kind = "returned"
            /\ outcome[p].ret # call[p].og_dir
            /\ cache[call[p].og_dir] = call[p].before

\* C3 amended: with effect code 1 and an existing cache entry whose file name
\* does not itself begin with "1_" (it is not stored under effect code 1),
\* artistic_effect writes and returns a path different from the input path,
\* stores the grayscale image there, and leaves the input file as it was.
C3_DistinctUnlessSameEffect ==
    \A p \in Procs :
        (OnEntry(p) /\ call[p].effect = GRAYSCALE
            /\ ~StartsWith(call[p].og_dir.name, IntStr(GRAYSCALE) \o <<"_">>)) =>
            /\ outcome[p].kind = "returned"
            /\ outcome[p].ret # call[p].og_dir
            /\ wrote[p] = {outcome[p].ret}
            /\ cache[outcome[p].ret].gray
            /\ cache[call[p].og_dir] = call[p].before

\* C3 witness: grayscale of an entry stored under the unrecognised code
C3_Witness ==
    \E p \in Procs :
        /\ OnEntry(p) /\ call[p].effect = GRAYSCALE
        /\ StartsWith(call[p].og_dir.name, IntStr(UnknownEffect) \o <<"_">>)
        /\ outcome[p].kind = "returned"
        /\ ~call[p].before.gray

\* the file names of effect-0 entries and of entries of an effect code >= 1
IsEffect0Path(q) == StartsWith(q.name, <<"0", "_">>)
IsDerivedPath(q) ==
    \E k \in 1..Len(q.name) :
        /\ q.name[k] = "_"
        /\ \A i \in 1..(k - 1) : IsDigit(q.name[i])
        /\ k > 1 /\ q.name[1] # "0"

IsDownload(p) == call[p].op = "download_avatar"

\* C5: for an identifier that is no number the call sends no lookup and no
\* CDN request, the resolver's value is None, and download_avatar returns
\* without writing a cache entry.
C5_NonNumericNoOp ==
    \A p \in Procs :
        (IsDownload(p) /\ call[p].uid \in NotNumbers) =>
            /\ CountOp(events[p], "lookup") = 0
            /\ CountOp(events[p], "cdn") = 0
            /\ call[p].avatar_url = NoneUrl
            /\ pc[p] = "idle"
            /\ outcome[p] = Returned(NonePath)
            /\ wrote[p] = {}
            /\ imread_raw(cache, call[p].img_path) = call[p].before

\* C5 witness: download_avatar of "x5" has returned while the cache holds entries
C5_Witness ==
    \E p \in Procs :
        /\ IsDownload(p) /\ call[p].uid = Ux /\ outcome[p].kind = "returned"
        /\ DOMAIN cache # {}

\* C6 as stated: a response without avatar whose message holds the
\* unknown-user phrase raises UnknownUserError for the identifier, with no
\* sleep and no retry, whatever other phrases the message holds.
C6_UnknownUserAlways ==
    \A p \in Procs :
        (JustLooked(p) /\ SaysUnknownUser(resp[p])) =>
            /\ pc[p] = "idle"
            /\ outcome[p].kind = "raised"
            /\ outcome[p].error.kind = "UnknownUserError"

\* C6 amended: a response without avatar whose message holds the unknown-user
\* phrase and neither the unauthorized nor the rate-limit phrase raises
\* UnknownUserError carrying the identifier and the body; the call does not
\* sleep or look up again after it.
C6_UnknownUserAlone ==
    \A p \in Procs :
        (JustLooked(p) /\ SaysUnknownUser(resp[p])
            /\ ~SaysUnauthorized(resp[p]) /\ ~SaysLimit(resp[p])) =>
            /\ pc[p] = "idle"
            /\ outcome[p] = Raised([kind |-> "UnknownUserError",
                                    subject |-> call[p].uid, body |-> resp[p]])
            /\ wrote[p] = {}

\* C6 witness: the retry after a rate limit is answered "unknown user"
C6_Witness ==
    \E p \in Procs :
        /\ JustLooked(p) /\ CountOp(events[p], "sleep") = 1
        /\ resp[p].message = {UNKNOWN_USER}
        /\ outcome[p].kind = "raised"

\* C7: a response without avatar whose message holds the unauthorized phrase
\* raises InvalidTokenError carrying the token and the body; that lookup is
\* the last request of the call: no retry, no CDN request, no cache write.
C7_UnauthorizedStops ==
    \A p \in Procs :
        (JustLooked(p) /\ SaysUnauthorized(resp[p])) =>
            /\ pc[p] = "idle"
            /\ outcome[p] = Raised([kind |-> "InvalidTokenError",
                                    subject |-> <<call[p].api_token>>, body |-> resp[p]])
            /\ CountOp(events[p], "cdn") = 0
            /\ wrote[p] = {}
            /\ imread_raw(cache, call[p].img_path) = call[p].before

\* C7 witness: an unauthorized message that also names the rate limit and
\* carries retry_after
C7_Witness ==
    \E p \in Procs :
        /\ JustLooked(p)
        /\ resp[p].message = {UNAUTHORIZED, LIMIT} /\ resp[p].has_retry
        /\ outcome[p].kind = "raised"
        /\ DOMAIN cache # {}

JustFetchedCdn(p) == Len(events[p]) >= 1 /\ LastEv(p).op = "cdn"

\* C8: when the CDN bytes do not decode, download_avatar ends with an error
\* that is not ConnectionError, and the effect-0 entry is not written: the
\* cache holds for that path what it held before the call.
C8_DecodeFailure ==
    \A p \in Procs :
        (IsDownload(p) /\ JustFetchedCdn(p) /\ call[p].body = Malformed) =>
            /\ outcome[p].kind = "raised"
            /\ outcome[p].error.kind # "ConnectionError"
            /\ outcome[p].error.kind = "cv2.error"
            /\ wrote[p] = {}
            /\ imread_raw(cache, call[p].img_path) = call[p].before

\* C8 witness: a decode failure, over an entry stored earlier and without one
C8_Witness ==
    \E p \in Procs :
        /\ IsDownload(p) /\ JustFetchedCdn(p) /\ call[p].body = Malformed
        /\ call[p].before # NoneImg
        /\ \E u \in NumericUIDs : get_avatar_path(u) \notin DOMAIN cache

\* C9 as stated: distinct identifiers have disjoint cache paths, and however
\* the steps of two workers on distinct identifiers interleave, no cache
\* path is written by both.
C9_DisjointWriters ==
    /\ \A u, v \in NumericUIDs : \A e, f \in Effects :
          u # v => get_avatar_dir(u, NonePath, e) # get_avatar_dir(v, NonePath, f)
    /\ puid[1] # puid[2] =>
          \A w1, w2 \in writes : w1.path = w2.path => w1.proc = w2.proc

\* C10: when a call was rate limited and the retried lookup answers with an
\* avatar hash, the resolver still hands None to download_avatar, which
\* returns without error, without a CDN request and without a cache write.
C10_RetryDiscarded ==
    \A p \in Procs :
        (IsDownload(p) /\ JustLooked(p) /\ CountOp(events[p], "sleep") >= 1
            /\ resp[p].has_avatar) =>
            /\ call[p].avatar_url = NoneUrl
            /\ pc[p] = "idle"
            /\ outcome[p] = Returned(NonePath)
            /\ CountOp(events[p], "cdn") = 0
            /\ wrote[p] = {}
            /\ imread_raw(cache, call[p].img_path) = call[p].before

\* C10 witness: first response a rate limit, second an avatar hash, and the
\* account has no cache entry
C10_Witness ==
    \E p \in Procs :
        /\ IsDownload(p) /\ Len(events[p]) = 4 /\ JustLooked(p)
        /\ events[p][3].op = "sleep"
        /\ resp[p].has_avatar /\ resp[p].avatar = "a1"
        /\ call[p].img_path \notin DOMAIN cache

\* C11 as stated: with an effect code that is neither 0 nor 1 and an existing
\* cache entry as input, artistic_effect raises nothing, hands on the image
\* data of the input as they are (no transform), and leaves the input file
\* as it was.
C11_PassThrough ==
    \A p \in Procs :
        (OnEntry(p) /\ call[p].effect \notin {0, GRAYSCALE}) =>
            /\ outcome[p].kind = "returned"
            /\ call[p].img = call[p].before
            /\ cache[call[p].og_dir] = call[p].before

====
